---- MODULE Spec2Model ----
(***************************************************************************)
(* A model of soda, a converter from ELF shared objects to relocatable     *)
(* objects.  Four parts of the program are modelled:                       *)
(*                                                                         *)
(*  - the pass framework of src/src/pass.rs (PassManager, PassContext,     *)
(*    PassHandle), under the specification Spec;                           *)
(*  - the section coalescing pass CopyLodableSectionsPass ("CLS") of       *)
(*    src/src/elf/pass/section.rs, under the specification SpecCLS;        *)
(*  - the passes that follow CLS (src/src/elf/pass/symbol.rs, reloc.rs,    *)
(*    init_array.rs), under the specification SpecElf;                     *)
(*  - the command line driver do_main of src/src/main.rs with its output   *)
(*    file and its default output name, under the specification SpecMain.  *)
(***************************************************************************)
EXTENDS Integers, Sequences, FiniteSets, TLC

VARIABLES
    \* ---- pass framework (src/src/pass.rs) ----
    passes,        \* PassManager::passes of each manager: a sequence of pass types
    handles,       \* the PassHandles add_pass has returned, each with its issuer
    phase,         \* "setup" | "running" | "ok" | "err" | "panic"
    runMgr,        \* the manager PassManager::run was called on ("none" before)
    cur,           \* position of the for loop of PassManager::run (0-based)
    inPass,        \* TRUE while current_pass.run(&ctx) is executing
    pass_outputs,  \* PassContext::pass_outputs: the type-erased values
    result,        \* what PassManager::run returned
    lastFetch,     \* the last get_pass_output call of the running pass
    log,           \* history: the passes invoked and how each returned
    \* ---- section coalescing pass (src/src/elf/pass/section.rs) ----
    input,         \* the parsed ELF input: sections and segments
    cls,           \* what CopyLodableSectionsPass::run did ("idle" before)
    \* ---- symbol, relocation and init/fini passes (src/src/elf/pass) ----
    symgen,        \* what GenerateSymbolPass::run did ("idle" before)
    relconv,       \* what ConvertRelocationPass::run did ("idle" before)
    funcarr,       \* what the init-array and fini-array passes did
    \* ---- the command line driver (src/src/main.rs) ----
    args,          \* Args: the input path's file name and the -o option
    pc,            \* position of do_main
    output_file,   \* the OutputFile value and the file it stands for
    ret            \* what do_main returned

pmVars == <<passes, handles, phase, runMgr, cur, inPass, pass_outputs, result,
            lastFetch, log>>
clsVars == <<input, cls>>
elfVars == <<symgen, relconv, funcarr>>
mainVars == <<args, pc, output_file, ret>>
vars == <<passes, handles, phase, runMgr, cur, inPass, pass_outputs, result,
          lastFetch, log, input, cls, symgen, relconv, funcarr, args, pc,
          output_file, ret>>

(***************************************************************************)
(* Bounds.                                                                 *)
(***************************************************************************)
MaxPasses == 3      \* passes registered with one PassManager
MaxAddr == 2        \* largest sh_addr of an input section
MaxSize == 2        \* largest sh_size of an input section

(***************************************************************************)
(*                     PASS FRAMEWORK  (src/src/pass.rs)                   *)
(***************************************************************************)
Managers == {"m1", "m2"}

\* The pass types of the repository that are registered in its pipelines.
PassTypes == {"CopyLodableSectionsPass", "ConvertRelocationPass", "TestPass"}

\* Pass::NAME of each pass type.
NAME(P) ==
    CASE P = "CopyLodableSectionsPass" -> "copy sections"
      [] P = "ConvertRelocationPass"   -> "convert relocations"
      [] P = "TestPass"                -> "unit test"

\* Pass::Output of each pass type: ConvertRelocationPass and TestPass both
\* return the unit type.
OutputType(P) ==
    CASE P = "CopyLodableSectionsPass" -> "CopyLodableSectionsOutput"
      [] P = "ConvertRelocationPass"   -> "Unit"
      [] P = "TestPass"                -> "Unit"

\* The values of an output type a pass may return.
OutputValues(T) ==
    CASE T = "CopyLodableSectionsOutput" -> {"cls_a", "cls_b"}
      [] T = "Unit"                      -> {"unit"}

\* A Box<dyn Any>: the value with the TypeId of its concrete type.
BoxAny(T, v) == [ty |-> T, val |-> v]

\* PassHandle::new: the index and the phantom pass type, nothing else.
PassHandle_new(idx, P) == [idx |-> idx, pass |-> P]

NoFetch == [kind |-> "none"]
NoResult == [kind |-> "none"]

\* A retrieval that ignores the handle's index and hands out the newest slot.
get_pass_output_last(outputs, handle) ==
    IF handle.idx >= Len(outputs)
    THEN [kind |-> "panic"]
    ELSE IF outputs[Len(outputs)].ty # OutputType(handle.pass)
         THEN [kind |-> "panic"]
         ELSE [kind |-> "value", val |-> outputs[Len(outputs)].val]

\* A retrieval that defaults instead of panicking on a missing slot.
get_pass_output_lenient(outputs, handle) ==
    IF handle.idx >= Len(outputs)
    THEN [kind |-> "value", val |-> "unit"]
    ELSE IF outputs[handle.idx + 1].ty # OutputType(handle.pass)
         THEN [kind |-> "panic"]
         ELSE [kind |-> "value", val |-> outputs[handle.idx + 1].val]

\* Vec::get(handle.idx) followed by downcast_ref::<P::Output>(), both unwrapped:
\* a missing slot or a slot of another type panics, anything else is returned.
get_pass_output(outputs, handle) ==
    IF handle.idx >= Len(outputs)
    THEN [kind |-> "panic"]
    ELSE IF outputs[handle.idx + 1].ty # OutputType(handle.pass)
         THEN [kind |-> "panic"]
         ELSE [kind |-> "value", val |-> outputs[handle.idx + 1].val]

\* A store that puts the newest output first.
push_output_front(outputs, box) == <<box>> \o outputs

\* Vec::push of a successful pass result.
push_output(outputs, box) == Append(outputs, box)

\* A loop that walks the passes from the back.
current_pass_rev(m, k) == passes[m][Len(passes[m]) - k]

\* The pass the for loop of PassManager::run visits at position k (0-based).
current_pass(m, k) == passes[m][k + 1]

\* An error wrapper that names the first pass of the pipeline.
RunPassError_first(k) == [kind |-> "err", name |-> NAME(passes[runMgr][1])]

\* RunPassError { name: String::from(current_pass.name()), error }.
RunPassError(k) == [kind |-> "err", name |-> NAME(current_pass(runMgr, k))]

PMInit ==
    /\ passes = [m \in Managers |-> <<>>]
    /\ handles = {}
    /\ phase = "setup"
    /\ runMgr = "none"
    /\ cur = 0
    /\ inPass = FALSE
    /\ pass_outputs = <<>>
    /\ result = NoResult
    /\ lastFetch = NoFetch
    /\ log = <<>>

\* PassManager::add_pass: push the pass, return a handle to its index.
add_pass(m, P) ==
    /\ phase = "setup"
    /\ Len(passes[m]) < MaxPasses
    /\ LET idx == Len(passes[m]) IN
        /\ passes' = [passes EXCEPT ![m] = Append(@, P)]
        /\ handles' = handles \cup {[h |-> PassHandle_new(idx, P), by |-> m]}
    /\ UNCHANGED <<phase, runMgr, cur, inPass, pass_outputs, result, lastFetch,
                   log, input, cls,
                   elfVars, mainVars>>

\* PassManager::run, up to the loop: the context is created with an empty store.
run_begin(m) ==
    /\ phase = "setup"
    /\ phase' = "running"
    /\ runMgr' = m
    /\ cur' = 0
    /\ pass_outputs' = <<>>
    /\ UNCHANGED <<passes, handles, inPass, result, lastFetch, log, input, cls,
                   elfVars, mainVars>>

\* The loop calls current_pass.run(&ctx).
pass_invoke ==
    /\ phase = "running"
    /\ ~inPass
    /\ cur < Len(passes[runMgr])
    /\ inPass' = TRUE
    /\ log' = Append(log, [ev |-> "start", idx |-> cur,
                           pass |-> current_pass(runMgr, cur)])
    /\ UNCHANGED <<passes, handles, phase, runMgr, cur, pass_outputs, result,
                   lastFetch, input, cls,
                   elfVars, mainVars>>

\* The running pass calls ctx.get_pass_output with a handle it holds: any handle
\* any manager has issued (handles are Copy and carry no reference to their
\* manager).  A panic unwinds out of PassManager::run.
pass_fetch ==
    /\ phase = "running"
    /\ inPass
    /\ \E hd \in handles :
        LET res == get_pass_output(pass_outputs, hd.h) IN
        /\ lastFetch' = [kind |-> "fetch", h |-> hd.h, by |-> hd.by, res |-> res]
        /\ IF res.kind = "panic"
           THEN /\ phase' = "panic"
                /\ inPass' = FALSE
           ELSE UNCHANGED <<phase, inPass>>
    /\ UNCHANGED <<passes, handles, runMgr, cur, pass_outputs, result, log,
                   input, cls,
                   elfVars, mainVars>>

\* The pass returns Ok(output): the boxed output is pushed, the loop moves on.
pass_return_ok ==
    /\ phase = "running"
    /\ inPass
    /\ LET P == current_pass(runMgr, cur) IN
       \E v \in OutputValues(OutputType(P)) :
        /\ pass_outputs' = push_output(pass_outputs, BoxAny(OutputType(P), v))
        /\ log' = Append(log, [ev |-> "ok", idx |-> cur, pass |-> P, val |-> v])
    /\ inPass' = FALSE
    /\ cur' = cur + 1
    /\ lastFetch' = NoFetch
    /\ UNCHANGED <<passes, handles, phase, runMgr, result, input, cls,
                   elfVars, mainVars>>

\* The pass returns Err(err): run returns RunPassError with the pass's name.
pass_return_err ==
    /\ phase = "running"
    /\ inPass
    /\ LET P == current_pass(runMgr, cur) IN
        /\ result' = RunPassError(cur)
        /\ log' = Append(log, [ev |-> "err", idx |-> cur, pass |-> P])
    /\ inPass' = FALSE
    /\ phase' = "err"
    /\ lastFetch' = NoFetch
    /\ UNCHANGED <<passes, handles, runMgr, cur, pass_outputs, input, cls,
                   elfVars, mainVars>>

\* The loop is exhausted: run returns Ok(ctx.output.into_inner()).
run_end ==
    /\ phase = "running"
    /\ ~inPass
    /\ cur >= Len(passes[runMgr])
    /\ phase' = "ok"
    /\ result' = [kind |-> "ok"]
    /\ UNCHANGED <<passes, handles, runMgr, cur, inPass, pass_outputs, lastFetch,
                   log, input, cls,
                   elfVars, mainVars>>

PMNext ==
    \/ \E m \in Managers, P \in PassTypes : add_pass(m, P)
    \/ \E m \in Managers : run_begin(m)
    \/ pass_invoke
    \/ pass_fetch
    \/ pass_return_ok
    \/ pass_return_err
    \/ run_end

(***************************************************************************)
(*                 Properties of the pass framework                        *)
(***************************************************************************)
IsPrefix(s, t) == Len(s) <= Len(t) /\ SubSeq(t, 1, Len(s)) = s

\* The value the pass at position k (0-based) returned, from the history.
Returned(k) == log[2 * (k + 1)].val

\* C1: PassManager::run executes the registered passes one at a time in
\* registration order: the history is start 0, ok 0, start 1, ok 1, ..., each
\* start being that of the pass add_pass registered at that position, so pass i
\* has returned success before pass j > i starts and no pass starts twice.
C1_RegistrationOrder ==
    \A i \in 1..Len(log) :
        LET k == (i - 1) \div 2 IN
        /\ log[i].idx = k
        /\ k < Len(passes[runMgr])
        /\ log[i].pass = passes[runMgr][k + 1]
        /\ IF i % 2 = 1 THEN log[i].ev = "start" ELSE log[i].ev \in {"ok", "err"}
        /\ (i % 2 = 0 /\ i < Len(log)) => log[i].ev = "ok"

\* Three passes of two different types ran to the end.
C1_Witness ==
    /\ phase = "ok"
    /\ Len(log) = 6
    /\ passes[runMgr][1] # passes[runMgr][3]

\* C2: fetching with a handle this pipeline issued for pass P, after P has
\* completed, returns exactly the value P returned.
C2_RoundTrip ==
    (/\ lastFetch.kind = "fetch"
     /\ lastFetch.by = runMgr
     /\ lastFetch.h.idx < cur)
        => lastFetch.res = [kind |-> "value", val |-> Returned(lastFetch.h.idx)]

\* The third pass fetches the first pass's output while the second pass, of the
\* same output type, has stored a different value in between.
C2_Witness ==
    /\ lastFetch.kind = "fetch"
    /\ lastFetch.by = runMgr
    /\ cur = 2
    /\ lastFetch.h.idx = 0
    /\ lastFetch.res.kind = "value"
    /\ pass_outputs[1].ty = pass_outputs[2].ty
    /\ pass_outputs[1].val # pass_outputs[2].val

\* C3: while the k-th pass runs the store holds exactly k outputs, slot i being
\* the output of the i-th registered pass; and the store only grows by one
\* appended output, in the step in which a pass returns success.
C3_StoreBeforePass ==
    /\ [](inPass =>
            /\ Len(pass_outputs) = cur
            /\ \A i \in 1..cur :
                pass_outputs[i] =
                    BoxAny(OutputType(passes[runMgr][i]), Returned(i - 1)))
    /\ [][/\ IsPrefix(pass_outputs, pass_outputs')
          /\ pass_outputs' # pass_outputs =>
                /\ Len(pass_outputs') = Len(pass_outputs) + 1
                /\ inPass /\ ~inPass'
                /\ log'[Len(log')].ev = "ok"
                /\ log'[Len(log')].idx = Len(pass_outputs)]_vars

\* The third pass is running over a store of two different outputs.
C3_Witness ==
    /\ inPass
    /\ cur = 2
    /\ Len(pass_outputs) = 2
    /\ pass_outputs[1] # pass_outputs[2]

\* C4: when a pass returns an error, run returns a RunPassError named after
\* that pass, nothing is stored for it, it was started once, nothing was
\* started after it, and the run takes no further step.
C4_ErrorStops ==
    phase = "err" =>
        /\ result = [kind |-> "err", name |-> NAME(passes[runMgr][cur + 1])]
        /\ log[Len(log)].ev = "err"
        /\ log[Len(log)].idx = cur
        /\ Len(pass_outputs) = cur
        /\ Cardinality({i \in 1..Len(log) :
                            log[i].ev = "start" /\ log[i].idx = cur}) = 1
        /\ ~(ENABLED PMNext)

\* The second of three passes failed, and is named differently from the first.
C4_Witness ==
    /\ phase = "err"
    /\ cur = 1
    /\ Len(passes[runMgr]) = 3
    /\ NAME(passes[runMgr][1]) # NAME(passes[runMgr][2])

\* C5: get_pass_output panics, returning nothing, when the handle's pass has not
\* completed in this pipeline (its slot does not exist yet: also a pass's own
\* handle) or when the slot holds a value of another type than the handle's
\* output type.
C5_FetchPanics ==
    lastFetch.kind = "fetch" =>
        /\ lastFetch.h.idx >= cur => lastFetch.res = [kind |-> "panic"]
        /\ (/\ lastFetch.h.idx < Len(pass_outputs)
            /\ pass_outputs[lastFetch.h.idx + 1].ty # OutputType(lastFetch.h.pass))
                => lastFetch.res = [kind |-> "panic"]
        /\ lastFetch.res.kind \in {"panic", "value"}
        /\ lastFetch.res.kind = "panic" => phase = "panic"

\* A pass fetched with its own handle during its own run.
C5_Witness ==
    /\ lastFetch.kind = "fetch"
    /\ lastFetch.by = runMgr
    /\ lastFetch.h.idx = cur
    /\ cur = 1
    /\ phase = "panic"

\* A fetch found a slot of another type than the handle's output type.
C5_WitnessMismatch ==
    /\ lastFetch.kind = "fetch"
    /\ lastFetch.h.idx < Len(pass_outputs)
    /\ pass_outputs[lastFetch.h.idx + 1].ty # OutputType(lastFetch.h.pass)

\* A handle no add_pass of the running manager has returned.
Foreign(hd) == [h |-> hd, by |-> runMgr] \notin handles

\* C6: fetching with a handle that only another PassManager issued fails (the
\* claim as stated: even with the index in range and the output types equal).
C6_ForeignHandleFails ==
    (lastFetch.kind = "fetch" /\ Foreign(lastFetch.h))
        => lastFetch.res.kind = "panic"

(***************************************************************************)
(*      SECTION COALESCING PASS (CLS)  (src/src/elf/pass/section.rs)       *)
(*                                                                         *)
(* The input is an ELF file reduced to what the pass reads: the section    *)
(* headers in file order (the null section first) and the program headers. *)
(* Addresses and sizes stay far below 2^64, so the checked_add of line 89  *)
(* and the usize assertion of line 97 never fire and are not modelled; the *)
(* input is well formed, so name_bytes and uncompressed_data do not fail;  *)
(* sh_addralign, which feeds only warnings and the alignment handed to     *)
(* set_data, is left out.                                                  *)
(***************************************************************************)
\* p_vaddr and p_memsz of a program header.
SegAddrs == {1}
SegSizes == {1, MaxAddr + MaxSize}
SegTypes == {"PT_LOAD", "PT_NOTE"}
\* sh_flags bits the pass looks at.
InputFlagSets == SUBSET {"WRITE", "EXECINSTR"}

\* The null section header: index 0, no data; a malformed file may give it an
\* address.
NullSections ==
    [index : {0}, addr : {0, 1}, size : {0}, nobits : {TRUE}, flags : {{}}]

InputSections(i) ==
    [index : {i}, addr : 0..MaxAddr, size : 0..MaxSize, nobits : BOOLEAN,
     flags : InputFlagSets]

Segments == [p_type : SegTypes, addr : SegAddrs, size : SegSizes]

Inputs ==
    {[sections |-> <<n, s1, s2>>, segments |-> <<g1, g2>>] :
        n \in NullSections, s1 \in InputSections(1), s2 \in InputSections(2),
        g1 \in Segments, g2 \in Segments}

\* The byte at position p (1-based) of the file data of section i: every byte of
\* every section is different and none is zero.
DataByte(i, p) == 10 * i + p

\* ElfSection::uncompressed_data: sh_size bytes of the file, none for SHT_NOBITS.
uncompressed_data(sec) ==
    IF sec.nobits THEN <<>> ELSE [p \in 1..sec.size |-> DataByte(sec.index, p)]

is_section_in_segment(sec, seg) ==
    LET sec_addr == sec.addr
        seg_addr == seg.addr
        sec_end_addr == sec_addr + sec.size
        seg_end_addr == seg_addr + seg.size
    IN  sec_addr >= seg_addr /\ sec_end_addr <= seg_end_addr

\* The inner loop of collect_loadable_sections for one PT_LOAD segment.
sections_of_segment(inp, seg) ==
    SelectSeq(inp.sections,
              LAMBDA sec : /\ sec.index # 0
                           /\ sec.addr # 0
                           /\ is_section_in_segment(sec, seg))

\* The outer loop of collect_loadable_sections, from segment k on: every
\* PT_LOAD segment pushes the sections it contains.
RECURSIVE collect_from(_, _)
collect_from(inp, k) ==
    IF k > Len(inp.segments)
    THEN <<>>
    ELSE (IF inp.segments[k].p_type # "PT_LOAD"
          THEN <<>>
          ELSE sections_of_segment(inp, inp.segments[k]))
         \o collect_from(inp, k + 1)

\* Insert sec behind every element whose address is not larger.
insert_by_address(sorted, sec) ==
    LET n == Cardinality({i \in 1..Len(sorted) : sorted[i].addr <= sec.addr})
    IN  SubSeq(sorted, 1, n) \o <<sec>> \o SubSeq(sorted, n + 1, Len(sorted))

\* Vec::sort_by_key(|sec| sec.address()): a stable sort.
RECURSIVE sort_by_address(_)
sort_by_address(secs) ==
    IF secs = <<>>
    THEN <<>>
    ELSE insert_by_address(sort_by_address(SubSeq(secs, 1, Len(secs) - 1)),
                           secs[Len(secs)])

\* A collection that leaves the sections in the order the loops found them.
collect_loadable_sections_unsorted(inp) == collect_from(inp, 1)

\* collect_loadable_sections: the loops, then the sort by address.
collect_loadable_sections(inp) == sort_by_address(collect_from(inp, 1))

get_output_section_flags(input_sections) ==
    LET writable ==
            \E i \in 1..Len(input_sections) : "WRITE" \in input_sections[i].flags
        executable ==
            \E i \in 1..Len(input_sections) :
                "EXECINSTR" \in input_sections[i].flags
    IN  [kind |-> "Elf",
         sh_flags |-> {"ALLOC"}
                        \cup (IF writable THEN {"WRITE"} ELSE {})
                        \cup (IF executable THEN {"EXECINSTR"} ELSE {})]

\* The flags Object::add_section gives a new section: SectionFlags::None.
SectionFlags_None == [kind |-> "None"]

\* A map entry whose range runs one byte past the section.
SectionMap_wide(sec) ==
    [index |-> sec.index,
     addr_range |-> [start |-> sec.addr, end |-> sec.addr + sec.size + 1]]

\* SectionMap { index, addr_range: input_sec_addr..input_sec_end }.
SectionMap(sec) ==
    [index |-> sec.index,
     addr_range |-> [start |-> sec.addr, end |-> sec.addr + sec.size]]

\* The first loop of run: output_sec_size is overwritten by every section's
\* end, so it ends as the end of the last section of the sorted list.
output_sec_size_of(input_sections) ==
    LET last == input_sections[Len(input_sections)]
    IN  last.addr + last.size

section_maps_of(input_sections) ==
    [i \in 1..Len(input_sections) |-> SectionMap(input_sections[i])]

\* A copy that leaves out the first byte of the destination range.
copy_from_slice_skip_first(buf, addr, data) ==
    [o \in 1..Len(buf) |->
        IF o - 1 > addr /\ o - 1 < addr + Len(data)
        THEN data[o - addr]
        ELSE buf[o]]

\* output_buffer[addr..addr + data.len()].copy_from_slice(data); buf[o] is the
\* byte at offset o - 1.
copy_from_slice(buf, addr, data) ==
    [o \in 1..Len(buf) |->
        IF o - 1 >= addr /\ o - 1 < addr + Len(data)
        THEN data[o - addr]
        ELSE buf[o]]

\* The second loop of run, from section k on.  The slice of line 116 panics
\* when it reaches past the buffer, the assertion of line 107 when a section
\* has more data than sh_size.
RECURSIVE copy_sections(_, _, _)
copy_sections(buf, input_sections, k) ==
    IF k > Len(input_sections)
    THEN [panic |-> FALSE, buf |-> buf]
    ELSE LET sec_data == uncompressed_data(input_sections[k])
             input_sec_addr == input_sections[k].addr
         IN  IF Len(sec_data) > input_sections[k].size
             THEN [panic |-> TRUE, buf |-> buf]
             ELSE IF sec_data = <<>>
             THEN copy_sections(buf, input_sections, k + 1)
             ELSE IF input_sec_addr + Len(sec_data) > Len(buf)
             THEN [panic |-> TRUE, buf |-> buf]
             ELSE copy_sections(copy_from_slice(buf, input_sec_addr, sec_data),
                                input_sections, k + 1)

\* CopyLodableSectionsPass::run on the input inp: what it returns (or that it
\* panicked), and the flags and data it left in the output section "soda".
CopyLodableSectionsPass_result(inp) ==
    LET input_sections == collect_loadable_sections(inp) IN
    IF input_sections = <<>>
    THEN [status |-> "ok",
          output_section_size |-> 0,
          section_maps |-> <<>>,
          out_flags |-> SectionFlags_None,
          out_data |-> <<>>]
    ELSE LET output_sec_size == output_sec_size_of(input_sections)
             copied == copy_sections([o \in 1..output_sec_size |-> 0],
                                     input_sections, 1)
         IN  IF copied.panic
             THEN [status |-> "panic"]
             ELSE [status |-> "ok",
                   output_section_size |-> output_sec_size,
                   section_maps |-> section_maps_of(input_sections),
                   out_flags |-> get_output_section_flags(input_sections),
                   out_data |-> copied.buf]

NotRun == [status |-> "idle"]

\* The pass framework runs CopyLodableSectionsPass::run on the input.
CopyLodableSectionsPass_run ==
    /\ cls = NotRun
    /\ cls' = CopyLodableSectionsPass_result(input)
    /\ UNCHANGED <<passes, handles, phase, runMgr, cur, inPass, pass_outputs,
                   result, lastFetch, log, input,
                   elfVars, mainVars>>

\* The passes after CLS have not run; the driver of main.rs is not running.
FuncArrays == {"init", "fini"}
ElfIdle == symgen = NotRun /\ relconv = NotRun /\ funcarr = [a \in FuncArrays |-> NotRun]
NoArgs == [input |-> <<>>, output |-> "None"]
NoFile ==
    [created |-> FALSE, path |-> <<>>, open |-> FALSE, delete_on_drop |-> FALSE,
     exists |-> FALSE]
NoReturn == [kind |-> "none"]
MainIdle == args = NoArgs /\ pc = "idle" /\ output_file = NoFile /\ ret = NoReturn

CLSInit == PMInit /\ input \in Inputs /\ cls = NotRun /\ ElfIdle /\ MainIdle
CLSNext == CopyLodableSectionsPass_run
SpecCLS == CLSInit /\ [][CLSNext]_vars

(***************************************************************************)
(*                        Properties of CLS                                *)
(***************************************************************************)
ClsOk == cls.status = "ok"

\* The positions of the section map, and the input section of an entry.
MapEntries == 1..Len(cls.section_maps)
EntrySection(k) == input.sections[cls.section_maps[k].index + 1]
EntriesOf(i) == {k \in MapEntries : cls.section_maps[k].index = i}

\* sec lies wholly inside some PT_LOAD segment of the input.
InSomeLoadSegment(sec) ==
    \E g \in 1..Len(input.segments) :
        /\ input.segments[g].p_type = "PT_LOAD"
        /\ input.segments[g].addr <= sec.addr
        /\ sec.addr + sec.size <= input.segments[g].addr + input.segments[g].size

\* Two half-open ranges share an address.
Overlap(r1, r2) ==
    LET lo == IF r1.start > r2.start THEN r1.start ELSE r2.start
        hi == IF r1.end < r2.end THEN r1.end ELSE r2.end
    IN  lo < hi

AddrRange(sec) == [start |-> sec.addr, end |-> sec.addr + sec.size]

\* C7: coverage (I1).  A section with index # 0 and address # 0 inside some
\* PT_LOAD segment has exactly one map entry, with range [addr, addr + size);
\* every other section has none.
C7_Coverage ==
    ClsOk =>
        \A j \in 1..Len(input.sections) :
            LET sec == input.sections[j] IN
            IF sec.index # 0 /\ sec.addr # 0 /\ InSomeLoadSegment(sec)
            THEN /\ Cardinality(EntriesOf(sec.index)) = 1
                 /\ \A k \in EntriesOf(sec.index) :
                        cls.section_maps[k].addr_range = AddrRange(sec)
            ELSE EntriesOf(sec.index) = {}

\* The data of the section of entry k covers output offset o.
DataCovers(k, o) ==
    /\ EntrySection(k).addr <= o
    /\ o < EntrySection(k).addr + Len(uncompressed_data(EntrySection(k)))

\* The byte the data of the section of entry k has for output offset o.
DataAt(k, o) == uncompressed_data(EntrySection(k))[o - EntrySection(k).addr + 1]

Offsets == 0..(MaxAddr + MaxSize)

\* C8 as stated: byte fidelity (I2).  After a successful run the output holds
\* the data of every retained section at the section's address, overlapping
\* sections included, and zero wherever no section has data.
C8_ByteFidelity ==
    ClsOk =>
        /\ \A k \in MapEntries : \A o \in Offsets :
            DataCovers(k, o) =>
                /\ o < Len(cls.out_data)
                /\ cls.out_data[o + 1] = DataAt(k, o)
        /\ \A o \in 0..(Len(cls.out_data) - 1) :
            (\A k \in MapEntries : ~DataCovers(k, o)) => cls.out_data[o + 1] = 0

\* C8 as amended: the data range of every retained section lies inside the
\* output; every output byte some retained section has data for is the byte of
\* the last such section in the order of the section map (so a section no later
\* section overlaps is in the output intact); every other byte is zero.
C8_LastWriteWins ==
    ClsOk =>
        /\ \A k \in MapEntries : \A o \in Offsets :
            DataCovers(k, o) => o < Len(cls.out_data)
        /\ \A o \in 0..(Len(cls.out_data) - 1) :
            LET writers == {k \in MapEntries : DataCovers(k, o)} IN
            IF writers = {}
            THEN cls.out_data[o + 1] = 0
            ELSE \E k \in writers :
                    /\ \A w \in writers : w <= k
                    /\ cls.out_data[o + 1] = DataAt(k, o)

\* Two retained sections with data for the same offset, a retained section
\* that is intact, and a byte no section has data for.
C8_Witness ==
    /\ ClsOk
    /\ \E k1, k2 \in MapEntries : \E o \in Offsets :
        /\ k1 < k2
        /\ EntrySection(k1).index # EntrySection(k2).index
        /\ DataCovers(k1, o) /\ DataCovers(k2, o)
        /\ Len(uncompressed_data(EntrySection(k2))) > 1
    /\ \E o \in 0..(Len(cls.out_data) - 1) : \A k \in MapEntries : ~DataCovers(k, o)

\* C9: flag monotonicity (I4).  After a successful run, with or without
\* retained sections, the output section has explicit ELF flags with ALLOC,
\* WRITE iff some retained section has WRITE, EXECINSTR iff some has EXECINSTR.
C9_Flags ==
    ClsOk =>
        /\ cls.out_flags.kind = "Elf"
        /\ "ALLOC" \in cls.out_flags.sh_flags
        /\ "WRITE" \in cls.out_flags.sh_flags
            <=> \E k \in MapEntries : "WRITE" \in EntrySection(k).flags
        /\ "EXECINSTR" \in cls.out_flags.sh_flags
            <=> \E k \in MapEntries : "EXECINSTR" \in EntrySection(k).flags

\* C10 as stated: no two distinct entries of a section map overlap; stated for
\* the entries of two different input sections, which the claim covers.
C10_NoOverlap ==
    ClsOk =>
        \A k1, k2 \in MapEntries :
            cls.section_maps[k1].index # cls.section_maps[k2].index
                => ~Overlap(cls.section_maps[k1].addr_range,
                                cls.section_maps[k2].addr_range)

\* C10 as amended: two distinct entries overlap only where the address ranges
\* of the input sections they stand for overlap; the pass adds no overlap of
\* its own and removes none.
C10_OverlapOnlyFromInput ==
    ClsOk =>
        \A k1, k2 \in MapEntries :
            k1 # k2 =>
                (Overlap(cls.section_maps[k1].addr_range,
                         cls.section_maps[k2].addr_range)
                    <=> Overlap(AddrRange(EntrySection(k1)),
                                AddrRange(EntrySection(k2))))

\* A map with two overlapping entries that stand for different sections.
C10_Witness ==
    /\ ClsOk
    /\ \E k1, k2 \in MapEntries :
        /\ cls.section_maps[k1].index # cls.section_maps[k2].index
        /\ Overlap(cls.section_maps[k1].addr_range, cls.section_maps[k2].addr_range)

(***************************************************************************)
(*        The passes after CLS: symbols, relocations, init/fini arrays     *)
(*                                                                         *)
(* The specification SpecElf runs CopyLodableSectionsPass,                 *)
(* GenerateSymbolPass, ConvertRelocationPass, GenerateInitArrayPass and    *)
(* GenerateFiniArrayPass on an ELF input that also has an architecture,    *)
(* dynamic symbols and dynamic relocations.                                *)
(***************************************************************************)
None == [kind |-> "None"]
Some(v) == [kind |-> "Some", val |-> v]

\* object::elf::{STB_LOCAL, STB_GLOBAL, STB_GNU_UNIQUE}.
STB_LOCAL == 0
STB_GLOBAL == 1
STB_GNU_UNIQUE == 10

Architectures == {"X86_64", "I386", "Aarch64"}

\* ---- sections and segments of the ELF inputs ----
\* Section 1 lies at address 1 and section 2 at address 3, each one byte long;
\* the only segment decides which of them CLS retains: both, section 1 alone
\* or none.
ElfSection(i, a, t) ==
    [index |-> i, addr |-> a, size |-> 1, nobits |-> FALSE, flags |-> {},
     sh_type |-> t]

ElfNullSection ==
    [index |-> 0, addr |-> 0, size |-> 0, nobits |-> TRUE, flags |-> {},
     sh_type |-> "SHT_NULL"]

ElfSectionLists(T1, T2) ==
    {<<ElfNullSection, ElfSection(1, 1, t1), ElfSection(2, 3, t2)>> :
        t1 \in T1, t2 \in T2}

ElfSegmentLists ==
    {<<[p_type |-> "PT_LOAD", addr |-> 1, size |-> 3]>>,
     <<[p_type |-> "PT_LOAD", addr |-> 1, size |-> 1]>>,
     <<[p_type |-> "PT_NOTE", addr |-> 1, size |-> 3]>>}

\* ---- dynamic symbols ----
SymbolSections ==
    {[kind |-> "None"], [kind |-> "Undefined"], [kind |-> "Absolute"],
     [kind |-> "Common"], [kind |-> "Section", index |-> 1],
     [kind |-> "Section", index |-> 2]}

\* st_info = (binding << 4) | type: local, global, weak and GNU-unique
\* bindings, object and function types.
StInfos == {16 * b + t : b \in {STB_LOCAL, STB_GLOBAL, 2, STB_GNU_UNIQUE}, t \in {1, 2}}

\* st_other: default, internal, hidden and protected visibility.
StOthers == {0, 1, 2, 3}

SymbolName(i) == <<"s", i>>

\* st_value: symbol 1 lies at the address of section 1, symbol 2 at that of
\* section 2.
SymbolAddress(i) == 2 * i - 1

DynamicSymbols(i, Secs, Infos, Others) ==
    [index : {i}, name : {SymbolName(i)}, address : {SymbolAddress(i)},
     section : Secs, st_info : Infos, st_other : Others]

\* ---- dynamic relocations ----
RelocAddrs == {1, 2, 3, 4}

SymbolicKinds ==
    {"Absolute", "R_X86_64_64", "R_X86_64_GLOB_DAT", "R_X86_64_JUMP_SLOT"}

Reloc(a, k, t, d) == [addr |-> a, kind |-> k, target |-> t, addend |-> d]
TargetSymbol(i) == [kind |-> "Symbol", index |-> i]
TargetAbsolute == [kind |-> "Absolute"]

\* A relative relocation has no symbol; every symbolic kind appears against
\* symbol 1, one of them also against symbol 2 and against no symbol;
\* R_X86_64_TPOFF64 stands for the kinds the converter does not handle.
FirstRelocs ==
    {Reloc(a, "R_X86_64_RELATIVE", TargetAbsolute, d) : a \in RelocAddrs, d \in {1, 2}}
    \cup {Reloc(a, k, TargetSymbol(1), 0) : a \in RelocAddrs, k \in SymbolicKinds}
    \cup {Reloc(a, "R_X86_64_GLOB_DAT", t, 0) :
            a \in RelocAddrs, t \in {TargetSymbol(2), TargetAbsolute}}
    \cup {Reloc(a, k, TargetAbsolute, 0) :
            a \in RelocAddrs, k \in {"R_X86_64_DTPMOD64", "R_X86_64_TPOFF64"}}

NextRelocs ==
    {Reloc(1, "R_X86_64_RELATIVE", TargetAbsolute, 1),
     Reloc(1, "R_X86_64_JUMP_SLOT", TargetSymbol(1), 0),
     Reloc(1, "R_X86_64_TPOFF64", TargetAbsolute, 0)}

RelocLists ==
    {<<>>} \cup {<<r>> : r \in FirstRelocs}
           \cup {<<r1, r2>> : r1 \in FirstRelocs, r2 \in NextRelocs}

\* ---- the inputs ----
\* Inputs with many kinds of dynamic symbols and no relocation.
SymInputs ==
    {[arch |-> "X86_64", sections |-> secs, segments |-> segs,
      dynamic_symbols |-> <<s1, s2>>, dynamic_relocations |-> Some(<<>>)] :
        secs \in ElfSectionLists({"SHT_PROGBITS"}, {"SHT_PROGBITS"}),
        segs \in ElfSegmentLists,
        s1 \in DynamicSymbols(1, SymbolSections, StInfos, StOthers),
        s2 \in DynamicSymbols(2, {[kind |-> "Undefined"],
                                  [kind |-> "Section", index |-> 2]},
                              {16 * STB_GLOBAL + 2}, {0})}

\* Inputs with many kinds of dynamic relocations, an undefined symbol and a
\* symbol defined in section 2.  dynamic_relocations() is an Option: the
\* passes handle both None and Some of a possibly empty list.
RelInputs ==
    {[arch |-> a, sections |-> secs, segments |-> segs,
      dynamic_symbols |->
          <<[index |-> 1, name |-> SymbolName(1), address |-> SymbolAddress(1),
             section |-> [kind |-> "Undefined"],
             st_info |-> 16 * STB_GLOBAL + 2, st_other |-> 0],
            [index |-> 2, name |-> SymbolName(2), address |-> SymbolAddress(2),
             section |-> [kind |-> "Section", index |-> 2],
             st_info |-> 16 * STB_GLOBAL + 1, st_other |-> 0]>>,
      dynamic_relocations |-> rels] :
        a \in Architectures,
        secs \in ElfSectionLists({"SHT_PROGBITS", "SHT_INIT_ARRAY"},
                                 {"SHT_PROGBITS", "SHT_FINI_ARRAY"}),
        segs \in ElfSegmentLists,
        rels \in {None} \cup {Some(l) : l \in RelocLists}}

\* ---- inputs with function pointer arrays ----
\* Section 1 is an init array at address 8 that is empty or holds one or two
\* 8-byte entries; section 2 lies at address 24, holds 8 bytes and is an init
\* array, a fini array or plain data.  The segment covers both sections, the
\* first one alone or none.
ArraySection(i, a, n, t) ==
    [index |-> i, addr |-> a, size |-> n, nobits |-> FALSE, flags |-> {},
     sh_type |-> t]

ArraySectionLists ==
    {<<ElfNullSection, ArraySection(1, 8, n, "SHT_INIT_ARRAY"),
       ArraySection(2, 24, 8, t)>> :
        n \in {0, 8, 16},
        t \in {"SHT_INIT_ARRAY", "SHT_FINI_ARRAY", "SHT_PROGBITS"}}

ArraySegmentLists ==
    {<<[p_type |-> "PT_LOAD", addr |-> 8, size |-> 24]>>,
     <<[p_type |-> "PT_LOAD", addr |-> 8, size |-> 16]>>,
     <<[p_type |-> "PT_NOTE", addr |-> 8, size |-> 24]>>}

ArrayRelocs ==
    {Reloc(a, "R_X86_64_RELATIVE", TargetAbsolute, 8) : a \in {8, 16, 24}}
    \cup {Reloc(a, "R_X86_64_GLOB_DAT", TargetSymbol(1), 0) : a \in {8, 16, 24}}
    \cup {Reloc(a, "R_X86_64_TPOFF64", TargetAbsolute, 0) : a \in {8, 16, 24}}

ArrayRelocLists ==
    {<<>>} \cup {<<r>> : r \in ArrayRelocs}
           \cup {<<r1, r2>> : r1 \in ArrayRelocs, r2 \in ArrayRelocs}

ArrInputs ==
    {[arch |-> "X86_64", sections |-> secs, segments |-> segs,
      dynamic_symbols |->
          <<[index |-> 1, name |-> SymbolName(1), address |-> SymbolAddress(1),
             section |-> [kind |-> "Undefined"],
             st_info |-> 16 * STB_GLOBAL + 2, st_other |-> 0]>>,
      dynamic_relocations |-> rels] :
        secs \in ArraySectionLists,
        segs \in ArraySegmentLists,
        rels \in {None} \cup {Some(l) : l \in ArrayRelocLists}}

ElfInputs == SymInputs \cup RelInputs \cup ArrInputs

\* ---- CopyLodableSectionsOutput as the later passes see it ----
\* Object::section_symbol gives the output section its symbol before any other
\* symbol is added: it is symbol 0 of the output, the symbols GenerateSymbolPass
\* adds are 1, 2, ...
output_section_symbol == 0
output_section_id == "soda"

get_section_map(cls_output, section_idx) ==
    {k \in 1..Len(cls_output.section_maps) :
        cls_output.section_maps[k].index = section_idx}

\* A lookup that takes every section for copied.
is_section_copied_always(cls_output, idx) == TRUE

is_section_copied(cls_output, idx) == get_section_map(cls_output, idx) # {}

\* ---- GenerateSymbolPass (src/src/elf/pass/symbol.rs) ----
\* ObjectSymbol::section_index: the index of the defining section, if any.
section_index(input_sym) ==
    IF input_sym.section.kind = "Section"
    THEN Some(input_sym.section.index)
    ELSE None

\* ElfSymbol::name_bytes.
name_bytes(input_sym) == input_sym.name

\* The section of the output symbol, with undefined symbols turned absolute.
output_symbol_section_abs(input_sym) ==
    IF input_sym.section.kind = "Section"
    THEN [kind |-> "Section", id |-> output_section_id]
    ELSE IF input_sym.section.kind = "Undefined"
    THEN [kind |-> "Absolute"]
    ELSE [kind |-> input_sym.section.kind]

\* The section of the output symbol, with common symbols given no section.
output_symbol_section_none(input_sym) ==
    IF input_sym.section.kind = "Section"
    THEN [kind |-> "Section", id |-> output_section_id]
    ELSE IF input_sym.section.kind = "Common"
    THEN [kind |-> "None"]
    ELSE [kind |-> input_sym.section.kind]

\* The match of create_output_symbol on input_sym.section(): a symbol defined
\* in a section moves to the output section, every other kind is kept.
output_symbol_section(input_sym) ==
    IF input_sym.section.kind = "Section"
    THEN [kind |-> "Section", id |-> output_section_id]
    ELSE [kind |-> input_sym.section.kind]

\* st_info with the binding left as it is.
output_st_info_keep(st_info) == st_info

\* The binding is st_info >> 4; a GNU-unique binding becomes global and the low
\* four bits are kept.  st_info is a u8.
output_st_info(st_info) ==
    LET bind == st_info \div 16
    IN  IF bind = STB_GNU_UNIQUE
        THEN (STB_GLOBAL * 16 + (st_info % 16)) % 256
        ELSE st_info

\* create_output_symbol: the name, value, section and ELF flags of the output
\* symbol (size, kind, scope and weakness are copied from the input).
create_output_symbol(input_sym) ==
    [name |-> name_bytes(input_sym),
     value |-> input_sym.address,
     section |-> output_symbol_section(input_sym),
     st_info |-> output_st_info(input_sym.st_info),
     st_other |-> input_sym.st_other]

\* A loop that also leaves out the symbols with a local binding.
skip_symbol_local(input_sym, cls_output) ==
    \/ input_sym.st_info \div 16 = STB_LOCAL
    \/ /\ section_index(input_sym) # None
       /\ ~is_section_copied(cls_output, section_index(input_sym).val)

\* The test at the head of the loop of run: a symbol defined in a section that
\* was not copied is left out.
skip_symbol(input_sym, cls_output) ==
    /\ section_index(input_sym) # None
    /\ ~is_section_copied(cls_output, section_index(input_sym).val)

\* The loop of run from symbol k on; acc holds the symbols added to the output
\* and the symbol map so far.
RECURSIVE generate_symbols(_, _, _, _)
generate_symbols(syms, cls_output, k, acc) ==
    IF k > Len(syms)
    THEN acc
    ELSE LET input_sym == syms[k]
         IN  IF skip_symbol(input_sym, cls_output)
             THEN generate_symbols(syms, cls_output, k + 1, acc)
             ELSE LET output_sym == create_output_symbol(input_sym)
                      output_sym_id == Len(acc.symbols) + 1
                  IN  generate_symbols(
                          syms, cls_output, k + 1,
                          [symbols |-> Append(acc.symbols, output_sym),
                           sym_map |-> (input_sym.index :> output_sym_id)
                                           @@ acc.sym_map])

GenerateSymbolPass_result(inp, cls_output) ==
    LET done == generate_symbols(inp.dynamic_symbols, cls_output, 1,
                                 [symbols |-> <<>>, sym_map |-> <<>>])
    IN  [status |-> "ok", symbols |-> done.symbols, sym_map |-> done.sym_map]

\* SymbolMap::get_output_symbol.
get_output_symbol(sym_map, input_sym_idx) ==
    IF input_sym_idx \in DOMAIN sym_map.sym_map
    THEN Some(sym_map.sym_map[input_sym_idx])
    ELSE None

\* No pass of the pipeline has failed: PassManager::run stops at the first
\* pass that fails.
NoFailure ==
    /\ cls.status \in {"idle", "ok"}
    /\ symgen.status \in {"idle", "ok"}
    /\ relconv.status \in {"idle", "ok"}
    /\ \A a \in FuncArrays : funcarr[a].status \in {"idle", "ok"}

\* The pass framework runs GenerateSymbolPass::run: the pass holds the handle
\* of CLS, which has run before it.
GenerateSymbolPass_run ==
    /\ NoFailure
    /\ cls.status = "ok"
    /\ symgen = NotRun
    /\ symgen' = GenerateSymbolPass_result(input, cls)
    /\ UNCHANGED <<pmVars, input, cls, relconv, funcarr, mainVars>>

\* ---- ConvertRelocationPass (src/src/elf/pass/reloc.rs) ----
\* The arm of R_X86_64_DTPMOD64: the kind is kept and the relocation is made
\* against the symbol of the output section.
convert_dtpmod64(input_reloc) ==
    [status |-> "ok",
     reloc |-> [offset |-> input_reloc.addr, size |-> 64,
                kind |-> "R_X86_64_DTPMOD64", symbol |-> output_section_symbol,
                addend |-> input_reloc.addend]]

\* The arm of R_X86_64_RELATIVE: an absolute relocation against the symbol of
\* the output section, with the addend of the input.
convert_relative(input_reloc) ==
    [status |-> "ok",
     reloc |-> [offset |-> input_reloc.addr, size |-> 64, kind |-> "Absolute",
                symbol |-> output_section_symbol,
                addend |-> input_reloc.addend]]

\* The arm of the symbolic kinds: todo!() panics when the target is no symbol,
\* unwrap() when the symbol has no entry in the symbol map.
convert_symbolic(input_reloc, sym_map) ==
    IF input_reloc.target.kind # "Symbol"
    THEN [status |-> "panic"]
    ELSE LET output_sym_id == get_output_symbol(sym_map, input_reloc.target.index)
         IN  IF output_sym_id = None
             THEN [status |-> "panic"]
             ELSE [status |-> "ok",
                   reloc |-> [offset |-> input_reloc.addr, size |-> 64,
                              kind |-> "Absolute", symbol |-> output_sym_id.val,
                              addend |-> input_reloc.addend]]

\* The match on input_reloc.kind().
convert_reloc(input_reloc, sym_map) ==
    IF input_reloc.kind = "R_X86_64_RELATIVE"
    THEN convert_relative(input_reloc)
    ELSE IF input_reloc.kind \in SymbolicKinds
    THEN convert_symbolic(input_reloc, sym_map)
    ELSE IF input_reloc.kind = "R_X86_64_DTPMOD64"
    THEN convert_dtpmod64(input_reloc)
    ELSE [status |-> "err",
          error |-> [kind |-> "UnsupportedReloc", reloc_kind |-> input_reloc.kind]]

\* A test that lets no relocation through unconverted.
reloc_outside_never(input_reloc_addr, cls_output) == FALSE

\* The test at the head of the loop: a relocation at or beyond the size of the
\* output section is left out with a warning.
reloc_outside(input_reloc_addr, cls_output) ==
    input_reloc_addr >= cls_output.output_section_size

\* The loop of convert_x86_64_relocations from relocation k on; acc holds the
\* relocations appended to the output section so far and, for each, the
\* position of the input relocation it was made from.
RECURSIVE convert_from(_, _, _, _, _)
convert_from(relocs, cls_output, sym_map, k, acc) ==
    IF k > Len(relocs)
    THEN [status |-> "ok", relocations |-> acc.relocations, from |-> acc.from]
    ELSE IF reloc_outside(relocs[k].addr, cls_output)
    THEN convert_from(relocs, cls_output, sym_map, k + 1, acc)
    ELSE LET c == convert_reloc(relocs[k], sym_map)
         IN  IF c.status = "ok"
             THEN convert_from(relocs, cls_output, sym_map, k + 1,
                               [relocations |-> Append(acc.relocations, c.reloc),
                                from |-> Append(acc.from, k)])
             ELSE IF c.status = "err"
             THEN [status |-> "err", error |-> c.error, at |-> k,
                   relocations |-> acc.relocations, from |-> acc.from]
             ELSE [status |-> "panic", at |-> k,
                   relocations |-> acc.relocations, from |-> acc.from]

NoRelocs == [relocations |-> <<>>, from |-> <<>>]

\* convert_x86_64_relocations: nothing to do when the input has no dynamic
\* relocations.
convert_x86_64_relocations(inp, cls_output, sym_map) ==
    IF inp.dynamic_relocations = None
    THEN [status |-> "ok", relocations |-> <<>>, from |-> <<>>]
    ELSE convert_from(inp.dynamic_relocations.val, cls_output, sym_map, 1, NoRelocs)

\* A run that converts the relocations of every architecture.
ConvertRelocationPass_result_anyarch(inp, cls_output, sym_map) ==
    convert_x86_64_relocations(inp, cls_output, sym_map)

\* ConvertRelocationPass::run: the match on the architecture of the input.
ConvertRelocationPass_result(inp, cls_output, sym_map) ==
    IF inp.arch = "X86_64"
    THEN convert_x86_64_relocations(inp, cls_output, sym_map)
    ELSE [status |-> "err",
          error |-> [kind |-> "UnsupportedArch", arch |-> inp.arch],
          at |-> 0, relocations |-> <<>>, from |-> <<>>]

\* The pass framework runs ConvertRelocationPass::run: the pass holds the
\* handles of CLS and of GenerateSymbolPass, which have run before it.
ConvertRelocationPass_run ==
    /\ NoFailure
    /\ cls.status = "ok"
    /\ symgen.status = "ok"
    /\ relconv = NotRun
    /\ relconv' = ConvertRelocationPass_result(input, cls, symgen)
    /\ UNCHANGED <<pmVars, input, cls, symgen, funcarr, mainVars>>

\* ---- GenerateInitArrayPass, GenerateFiniArrayPass
\* ---- (src/src/elf/pass/init_array.rs)
SectionTypeOf(a) == IF a = "init" THEN "SHT_INIT_ARRAY" ELSE "SHT_FINI_ARRAY"

\* A conversion that takes a relocation of any kind for a relative one.
convert_init_fini_array_reloc_x86_64_any(input_reloc) ==
    [status |-> "ok",
     reloc |-> [offset |-> input_reloc.addr, size |-> 64,
                kind |-> "Absolute", symbol |-> output_section_symbol,
                addend |-> input_reloc.addend]]

\* convert_init_fini_array_reloc_x86_64: R_X86_64_RELATIVE becomes an absolute
\* relocation against the symbol of the main output section; any other kind
\* is an error.
convert_init_fini_array_reloc_x86_64(input_reloc) ==
    IF input_reloc.kind = "R_X86_64_RELATIVE"
    THEN [status |-> "ok",
          reloc |-> [offset |-> input_reloc.addr, size |-> 64,
                     kind |-> "Absolute", symbol |-> output_section_symbol,
                     addend |-> input_reloc.addend]]
    ELSE [status |-> "err",
          error |-> [kind |-> "UnsupportedReloc", reloc_kind |-> input_reloc.kind]]

convert_init_fini_array_reloc(arch, input_reloc) ==
    IF arch = "X86_64"
    THEN convert_init_fini_array_reloc_x86_64(input_reloc)
    ELSE [status |-> "err", error |-> [kind |-> "UnsupportedArch", arch |-> arch]]

\* The inner loop of generate over the dynamic relocations, from relocation j
\* on, for an input section that covers the addresses lo .. hi - 1.
RECURSIVE array_relocs_from(_, _, _, _, _, _)
array_relocs_from(relocs, arch, lo, hi, j, acc) ==
    IF j > Len(relocs)
    THEN [status |-> "ok", relocations |-> acc]
    ELSE IF ~(relocs[j].addr >= lo /\ relocs[j].addr < hi)
    THEN array_relocs_from(relocs, arch, lo, hi, j + 1, acc)
    ELSE LET c == convert_init_fini_array_reloc(arch, relocs[j])
         IN  IF c.status = "ok"
             THEN array_relocs_from(relocs, arch, lo, hi, j + 1,
                                    Append(acc, c.reloc))
             ELSE [status |-> "err", error |-> c.error]

\* ctx.input.dynamic_relocations() as generate calls it.
dynamic_relocations(inp) == inp.dynamic_relocations

\* The outer loop of generate over the input sections of the wanted type, from
\* section k on.  The unwrap() of the dynamic relocations panics on None.
RECURSIVE generate_from(_, _, _, _, _)
generate_from(inp, cls_output, secs, k, acc) ==
    IF k > Len(secs)
    THEN [status |-> "ok", output_sec_size |-> acc.output_sec_size,
          relocations |-> acc.relocations]
    ELSE IF ~is_section_copied(cls_output, secs[k].index)
    THEN generate_from(inp, cls_output, secs, k + 1, acc)
    ELSE IF secs[k].size = 0
    THEN generate_from(inp, cls_output, secs, k + 1, acc)
    ELSE IF dynamic_relocations(inp) = None
    THEN [status |-> "panic"]
    ELSE LET r == array_relocs_from(dynamic_relocations(inp).val, inp.arch,
                                    secs[k].addr, secs[k].addr + secs[k].size,
                                    1, acc.relocations)
         IN  IF r.status = "ok"
             THEN generate_from(inp, cls_output, secs, k + 1,
                                [output_sec_size |->
                                     acc.output_sec_size + secs[k].size,
                                 relocations |-> r.relocations])
             ELSE [status |-> "err", error |-> r.error]

\* GenerateFuncPtrArray::generate: the section is created, zero-filled, and
\* given its relocations only when some retained section is not empty.
generate(inp, cls_output, a) ==
    LET input_sections ==
            SelectSeq(inp.sections, LAMBDA sec : sec.sh_type = SectionTypeOf(a))
        g == generate_from(inp, cls_output, input_sections, 1,
                           [output_sec_size |-> 0, relocations |-> <<>>])
    IN  IF g.status # "ok"
        THEN g
        ELSE IF g.output_sec_size = 0
        THEN [status |-> "ok", created |-> FALSE, data |-> <<>>,
              relocations |-> <<>>]
        ELSE [status |-> "ok", created |-> TRUE,
              data |-> [o \in 1..g.output_sec_size |-> 0],
              relocations |-> g.relocations]

\* The pass framework runs GenerateInitArrayPass::run or
\* GenerateFiniArrayPass::run: the pass holds the handle of CLS.
GenerateFuncPtrArray_run(a) ==
    /\ NoFailure
    /\ cls.status = "ok"
    /\ funcarr[a] = NotRun
    /\ funcarr' = [funcarr EXCEPT ![a] = generate(input, cls, a)]
    /\ UNCHANGED <<pmVars, input, cls, symgen, relconv, mainVars>>

GenerateInitArrayPass_run == GenerateFuncPtrArray_run("init")
GenerateFiniArrayPass_run == GenerateFuncPtrArray_run("fini")

ElfInit == PMInit /\ input \in ElfInputs /\ cls = NotRun /\ ElfIdle /\ MainIdle

ElfNext ==
    \/ CopyLodableSectionsPass_run
    \/ GenerateSymbolPass_run
    \/ ConvertRelocationPass_run
    \/ GenerateInitArrayPass_run
    \/ GenerateFiniArrayPass_run

SpecElf == ElfInit /\ [][ElfNext]_vars

(***************************************************************************)
(*            Properties of the symbol and relocation passes               *)
(***************************************************************************)
SymOk == symgen.status = "ok"
DynSyms == 1..Len(input.dynamic_symbols)
Retained(i) == is_section_copied(cls, i)
\* The output symbol made from the input symbol with index idx, if any.
Mapped(idx) == idx \in DOMAIN symgen.sym_map
OutputOf(idx) == symgen.symbols[symgen.sym_map[idx]]

Binding(st_info) == st_info \div 16
TypeBits(st_info) == st_info % 16
Undefined(s) == s.section.kind = "Undefined"
DefinedInSection(s) == s.section.kind = "Section"

\* C11: once GenerateSymbolPass has run, every undefined dynamic symbol of the
\* input has an entry in the symbol map, and the output symbol of that entry
\* is undefined and has the name bytes of the input symbol, whatever sections
\* CLS retained.
C11_UndefinedPreserved ==
    SymOk =>
        \A k \in DynSyms :
            LET s == input.dynamic_symbols[k]
            IN  Undefined(s) =>
                    /\ Mapped(s.index)
                    /\ OutputOf(s.index).section = [kind |-> "Undefined"]
                    /\ OutputOf(s.index).name = s.name

\* The pass has run on an input of which CLS retained no section and which
\* has an undefined dynamic symbol.
C11_Witness ==
    /\ SymOk
    /\ cls.section_maps = <<>>
    /\ \E k \in DynSyms : Undefined(input.dynamic_symbols[k])

\* C12 as stated: a dynamic symbol defined in a section has an entry in the
\* symbol map iff its binding is global, its visibility is default or
\* protected and its section was retained; a symbol with local binding or
\* with hidden or internal visibility has none.
C12_SelectedByBindingAndVisibility ==
    SymOk =>
        \A k \in DynSyms :
            LET s == input.dynamic_symbols[k]
            IN  DefinedInSection(s) =>
                    /\ Mapped(s.index) <=>
                           /\ Binding(s.st_info) = STB_GLOBAL
                           /\ s.st_other \in {0, 3}
                           /\ Retained(s.section.index)
                    /\ (Binding(s.st_info) = STB_LOCAL \/ s.st_other \in {1, 2})
                           => ~Mapped(s.index)

\* C12 amended: a dynamic symbol defined in a section has an entry in the
\* symbol map iff that section was retained by CLS, whatever its binding and
\* visibility; the output symbol then lies in the output section.  A symbol
\* that is not defined in a section always has an entry.
C12_SelectedBySection ==
    SymOk =>
        \A k \in DynSyms :
            LET s == input.dynamic_symbols[k]
            IN  /\ DefinedInSection(s) =>
                       (Mapped(s.index) <=> Retained(s.section.index))
                /\ (DefinedInSection(s) /\ Mapped(s.index)) =>
                       OutputOf(s.index).section =
                           [kind |-> "Section", id |-> output_section_id]
                /\ ~DefinedInSection(s) => Mapped(s.index)

\* The pass has emitted a symbol with local binding and hidden visibility that
\* is defined in a retained section, and has left out a global symbol with
\* default visibility whose section was not retained.
C12_Witness ==
    /\ SymOk
    /\ \E k \in DynSyms :
        LET s == input.dynamic_symbols[k]
        IN  /\ DefinedInSection(s) /\ Retained(s.section.index)
            /\ Binding(s.st_info) = STB_LOCAL /\ s.st_other = 2
            /\ Mapped(s.index)
    /\ \E k \in DynSyms :
        LET s == input.dynamic_symbols[k]
        IN  /\ DefinedInSection(s) /\ ~Retained(s.section.index)
            /\ Binding(s.st_info) = STB_GLOBAL /\ s.st_other = 0
            /\ ~Mapped(s.index)

\* C13: no symbol GenerateSymbolPass emits has the GNU-unique binding; the
\* output symbol of an input symbol with that binding has the global binding;
\* the type bits of st_info and the whole of st_other are those of the input
\* symbol.
C13_BindingNormalized ==
    SymOk =>
        /\ \A n \in 1..Len(symgen.symbols) :
               Binding(symgen.symbols[n].st_info) # STB_GNU_UNIQUE
        /\ \A k \in DynSyms :
               LET s == input.dynamic_symbols[k]
               IN  Mapped(s.index) =>
                       /\ Binding(s.st_info) = STB_GNU_UNIQUE =>
                              Binding(OutputOf(s.index).st_info) = STB_GLOBAL
                       /\ Binding(s.st_info) # STB_GNU_UNIQUE =>
                              OutputOf(s.index).st_info = s.st_info
                       /\ TypeBits(OutputOf(s.index).st_info) = TypeBits(s.st_info)
                       /\ OutputOf(s.index).st_other = s.st_other

\* The pass has emitted the output symbol of a GNU-unique input symbol with
\* protected visibility.
C13_Witness ==
    /\ SymOk
    /\ \E k \in DynSyms :
        LET s == input.dynamic_symbols[k]
        IN  /\ Binding(s.st_info) = STB_GNU_UNIQUE
            /\ s.st_other = 3
            /\ Mapped(s.index)

RelRan == relconv.status # "idle"
HasRelocs == input.dynamic_relocations # None
InputRelocs == IF HasRelocs THEN input.dynamic_relocations.val ELSE <<>>
OutputRelocs == 1..Len(relconv.relocations)
SupportedKinds == {"R_X86_64_RELATIVE", "R_X86_64_DTPMOD64"} \cup SymbolicKinds
\* The relocations of unsupported kind that the loop does not leave out.
UnsupportedReached ==
    {k \in 1..Len(InputRelocs) :
        /\ InputRelocs[k].kind \notin SupportedKinds
        /\ InputRelocs[k].addr < cls.output_section_size}
FirstOf(S) == CHOOSE k \in S : \A j \in S : k <= j

\* C14: every relocation ConvertRelocationPass appends has the address of its
\* input relocation as offset, and is made against the symbol of the CLS output
\* section iff the kind of the input relocation is R_X86_64_RELATIVE.
C14_RelocationTranslation ==
    RelRan =>
        \A n \in OutputRelocs :
            LET r == InputRelocs[relconv.from[n]]
            IN  /\ relconv.relocations[n].offset = r.addr
                /\ (relconv.relocations[n].symbol = output_section_symbol)
                       <=> (r.kind = "R_X86_64_RELATIVE")

\* C15 as stated: when the input has a dynamic relocation of an unsupported
\* kind, the pass (unless it panicked before) returns the unsupported-reloc
\* error with the kind of the first such relocation and converts no relocation
\* that follows it.
C15_UnsupportedKindFails ==
    (RelRan /\ relconv.status # "panic" /\ input.arch = "X86_64") =>
        LET U == {k \in 1..Len(InputRelocs) :
                     InputRelocs[k].kind \notin SupportedKinds}
        IN  U # {} =>
                /\ relconv.status = "err"
                /\ relconv.error = [kind |-> "UnsupportedReloc",
                                    reloc_kind |-> InputRelocs[FirstOf(U)].kind]
                /\ \A n \in OutputRelocs : relconv.from[n] < FirstOf(U)

\* C15 amended: on an x86-64 input the pass returns the unsupported-reloc error
\* exactly when it reaches a relocation of unsupported kind whose address is
\* below the size of the output section; the error carries the kind of the
\* first such relocation and no relocation that follows it is converted.  A
\* relocation of unsupported kind at or beyond that size is left out like any
\* other, and a panic can only come from a relocation before the first one
\* reached.
C15_UnsupportedKindReachedFails ==
    (RelRan /\ input.arch = "X86_64") =>
        /\ (relconv.status = "err") =>
               /\ UnsupportedReached # {}
               /\ relconv.at = FirstOf(UnsupportedReached)
               /\ relconv.error =
                      [kind |-> "UnsupportedReloc",
                       reloc_kind |-> InputRelocs[relconv.at].kind]
               /\ \A n \in OutputRelocs : relconv.from[n] < relconv.at
        /\ (relconv.status = "ok") => UnsupportedReached = {}
        /\ (relconv.status = "panic" /\ UnsupportedReached # {}) =>
               relconv.at < FirstOf(UnsupportedReached)

\* The pass has failed on a relocation of unsupported kind that follows a
\* relocation of unsupported kind that the loop left out, because it lies
\* beyond the output section.
C15_Witness ==
    /\ relconv.status = "err"
    /\ input.arch = "X86_64"
    /\ relconv.error.kind = "UnsupportedReloc"
    /\ Len(InputRelocs) = 2
    /\ InputRelocs[1].kind \notin SupportedKinds
    /\ InputRelocs[1].addr >= cls.output_section_size
    /\ relconv.at = 2

\* C16: ConvertRelocationPass returns the unsupported-architecture error, with
\* the architecture of the input, for every input that is not x86-64, and then
\* appends no relocation; on an x86-64 input it never returns that error.
C16_ArchitectureGate ==
    RelRan =>
        /\ input.arch # "X86_64" =>
               /\ relconv.status = "err"
               /\ relconv.error = [kind |-> "UnsupportedArch", arch |-> input.arch]
               /\ relconv.relocations = <<>>
        /\ input.arch = "X86_64" =>
               (relconv.status = "err" => relconv.error.kind # "UnsupportedArch")

\* The pass has run on an i386 input that has a relative relocation inside the
\* output section.
C16_Witness ==
    /\ RelRan
    /\ input.arch = "I386"
    /\ \E k \in 1..Len(InputRelocs) :
        /\ InputRelocs[k].kind = "R_X86_64_RELATIVE"
        /\ InputRelocs[k].addr < cls.output_section_size

\* No section of the input lies inside a PT_LOAD segment.
NoLoadCoverage ==
    \A k \in 1..Len(input.sections) :
        input.sections[k].index # 0 => ~InSomeLoadSegment(input.sections[k])
\* The dynamic symbols that are not defined in a section, in input order.
SectionlessSymbols ==
    SelectSeq(input.dynamic_symbols, LAMBDA s : ~DefinedInSection(s))
ArraysRan == {a \in FuncArrays : funcarr[a].status # "idle"}

\* C17 as stated, for the x86-64 inputs the relocation pass accepts: when no
\* section of the input is covered by a PT_LOAD segment, CLS, symbol synthesis
\* and relocation conversion succeed, the section map is empty, the output
\* section has size 0 and no data, symbol synthesis emits no symbol and no
\* relocation is appended.
C17_EmptyInputEmptyOutput ==
    (NoLoadCoverage /\ input.arch = "X86_64") =>
        /\ cls.status # "idle" =>
               /\ cls.status = "ok"
               /\ cls.section_maps = <<>>
               /\ cls.output_section_size = 0
               /\ cls.out_data = <<>>
        /\ symgen.status # "idle" =>
               symgen.status = "ok" /\ symgen.symbols = <<>>
        /\ relconv.status # "idle" =>
               relconv.status = "ok" /\ relconv.relocations = <<>>

\* C17 amended: when no section of the input is covered by a PT_LOAD segment,
\* CLS and symbol synthesis succeed, the section map is empty, the output
\* section has size 0 and no data; symbol synthesis emits exactly the symbols
\* of the dynamic symbols that are not defined in a section, in input order,
\* and maps each of them; relocation conversion appends no relocation, it
\* succeeds on an x86-64 input and returns the unsupported-architecture error
\* on any other.
C17_EmptyInputKeepsSectionlessSymbols ==
    NoLoadCoverage =>
        /\ cls.status # "idle" =>
               /\ cls.status = "ok"
               /\ cls.section_maps = <<>>
               /\ cls.output_section_size = 0
               /\ cls.out_data = <<>>
        /\ symgen.status # "idle" =>
               /\ symgen.status = "ok"
               /\ symgen.symbols =
                      [n \in 1..Len(SectionlessSymbols) |->
                          create_output_symbol(SectionlessSymbols[n])]
               /\ \A n \in 1..Len(SectionlessSymbols) :
                      symgen.sym_map[SectionlessSymbols[n].index] = n
               /\ \A n \in 1..Len(symgen.symbols) :
                      symgen.symbols[n].section.kind # "Section"
        /\ relconv.status # "idle" =>
               /\ relconv.relocations = <<>>
               /\ input.arch = "X86_64" => relconv.status = "ok"
               /\ input.arch # "X86_64" =>
                      /\ relconv.status = "err"
                      /\ relconv.error.kind = "UnsupportedArch"

\* The three passes have run on an x86-64 input without PT_LOAD coverage that
\* has an undefined symbol, a symbol defined in a section and two relocations.
C17_Witness ==
    /\ NoLoadCoverage
    /\ input.arch = "X86_64"
    /\ relconv.status = "ok"
    /\ Len(symgen.symbols) = 1
    /\ Len(input.dynamic_symbols) = 2
    /\ Len(InputRelocs) = 2

Utf8Len(c) == IF c = "é" THEN 2 ELSE 1

\* str::len: the length in bytes.
RECURSIVE len(_)
len(s) == IF s = <<>> THEN 0 ELSE Utf8Len(Head(s)) + len(Tail(s))

\* char::to_lowercase on the characters of the file names.
LowerChar(c) ==
    CASE c = "L" -> "l"
      [] c = "I" -> "i"
      [] c = "B" -> "b"
      [] c = "S" -> "s"
      [] c = "O" -> "o"
      [] OTHER -> c

\* str::to_lowercase.
to_lowercase(s) == [k \in 1..Len(s) |-> LowerChar(s[k])]

\* str::split_at(mid): mid is a byte offset; the call panics when mid does not
\* lie on a character boundary.
split_at(s, mid) ==
    LET K == {k \in 0..Len(s) : len(SubSeq(s, 1, k)) = mid}
    IN  IF K = {}
        THEN [panic |-> TRUE]
        ELSE LET k == CHOOSE k \in K : TRUE
             IN  [panic |-> FALSE, left |-> SubSeq(s, 1, k),
                  right |-> SubSeq(s, k + 1, Len(s))]

DotO == <<".", "o">>
DotSo == <<".", "s", "o">>
Lib == <<"l", "i", "b">>
Returns(v) == [panic |-> FALSE, val |-> v]
Panics == [panic |-> TRUE]

\* convert_soname_to_object_name: the labelled block computes name_core, the
\* function returns name_core followed by ".o".
convert_soname_to_object_name(soname) ==
    IF len(soname) < 3
    THEN Returns(soname \o DotO)
    ELSE LET s1 == split_at(soname, len(soname) - 3)
         IN  IF s1.panic
             THEN Panics
             ELSE IF to_lowercase(s1.right) # DotSo
             THEN Returns(soname \o DotO)
             ELSE IF len(s1.left) >= 3
             THEN LET s2 == split_at(s1.left, 3)
                  IN  IF s2.panic
                      THEN Panics
                      ELSE IF to_lowercase(s2.left) = Lib
                      THEN Returns(s2.right \o DotO)
                      ELSE Returns(s1.left \o DotO)
             ELSE Returns(s1.left \o DotO)

\* Args::get_output_path: the -o option if given, else the input path with its
\* file name converted.
get_output_path(a) ==
    IF a.output # "None"
    THEN Returns(a.output)
    ELSE convert_soname_to_object_name(a.input)

\* ---- the file names ----
NamePrefixes ==
    {<<>>, <<"l", "i", "b">>, <<"L", "i", "B">>, <<"l", "i">>, <<"é">>}
NameCores == {<<>>, <<"x">>, <<"x", "y", "z">>, <<"é">>, <<"x", "é">>}
NameSuffixes ==
    {<<>>, <<".", "s", "o">>, <<".", "S", "O">>, <<".", "s", "o", ".", "1">>,
     <<"s", "o">>, <<".", "o">>}
FileNames ==
    {p \o c \o s : p \in NamePrefixes, c \in NameCores, s \in NameSuffixes}
        \ {<<>>}
ArgsSet == [input : FileNames, output : {"None", <<"o", "u", "t">>}]

\* ---- OutputFile ----
\* OutputFile::create: File::create makes (or truncates) the file; the value
\* holds it open and is to delete it when dropped.
OutputFile_create(path) ==
    [created |-> TRUE, path |-> path, open |-> TRUE, delete_on_drop |-> TRUE,
     exists |-> TRUE]

prevent_delete_on_drop(f) == [f EXCEPT !.delete_on_drop = FALSE]

\* A drop that closes the file and never deletes it.
drop_keep(f) == [f EXCEPT !.open = FALSE]

\* Drop for OutputFile, followed by the drop of its fields: the file is closed;
\* it is deleted unless prevent_delete_on_drop was called.
drop(f) ==
    IF ~f.delete_on_drop
    THEN [f EXCEPT !.open = FALSE]
    ELSE [f EXCEPT !.open = FALSE, !.exists = FALSE]

Ok == [kind |-> "Ok"]
Err(stage) == [kind |-> "Err", at |-> stage]

\* ---- do_main ----
\* init_logger, std::fs::read, InputFile::parse and the test of the object
\* kind: each of them can make do_main return an error before the output file
\* is touched.
do_main_read_input(outcome) ==
    /\ pc = "start"
    /\ IF outcome = "ok"
       THEN pc' = "parsed" /\ ret' = ret
       ELSE pc' = "returned" /\ ret' = Err(outcome)
    /\ UNCHANGED <<pmVars, clsVars, elfVars, args, output_file>>

\* get_output_path and OutputFile::create.  A failure of File::create leaves
\* the file system as it was.
do_main_create_output(created) ==
    /\ pc = "parsed"
    /\ LET output_path == get_output_path(args)
       IN  IF output_path.panic
           THEN pc' = "panicked" /\ UNCHANGED <<output_file, ret>>
           ELSE IF created
           THEN /\ output_file' = OutputFile_create(output_path.val)
                /\ pc' = "created"
                /\ ret' = ret
           ELSE /\ pc' = "returned"
                /\ ret' = Err("create")
                /\ output_file' = output_file
    /\ UNCHANGED <<pmVars, clsVars, elfVars, args>>

\* The match on input_file: crate::elf::convert returns the output object or
\* an error, or panics; any other format is an error.  Leaving do_main drops
\* output_file; a panic drops it when the build unwinds and does not when the
\* build aborts.
do_main_convert(outcome) ==
    /\ pc = "created"
    /\ CASE outcome = "ok" ->
                pc' = "converted" /\ UNCHANGED <<output_file, ret>>
         [] outcome \in {"convert", "format"} ->
                /\ pc' = "returned"
                /\ ret' = Err(outcome)
                /\ output_file' = drop(output_file)
         [] outcome = "panic" ->
                /\ pc' = "panicked"
                /\ ret' = ret
                /\ output_file' \in {drop(output_file), output_file}
    /\ UNCHANGED <<pmVars, clsVars, elfVars, args>>

\* write_stream, then prevent_delete_on_drop and Ok(()) when it succeeded.
do_main_write(written) ==
    /\ pc = "converted"
    /\ pc' = "returned"
    /\ IF written
       THEN /\ ret' = Ok
            /\ output_file' = drop(prevent_delete_on_drop(output_file))
       ELSE /\ ret' = Err("write")
            /\ output_file' = drop(output_file)
    /\ UNCHANGED <<pmVars, clsVars, elfVars, args>>

\* do_main is called with the parsed arguments; a file of the output's name
\* may or may not exist already.
MainInit ==
    /\ PMInit /\ input = [sections |-> <<>>, segments |-> <<>>] /\ cls = NotRun
    /\ ElfIdle
    /\ args \in ArgsSet
    /\ pc = "start"
    /\ output_file \in {[NoFile EXCEPT !.exists = e] : e \in BOOLEAN}
    /\ ret = NoReturn

MainNext ==
    \/ \E outcome \in {"ok", "logger", "read", "parse", "kind"} :
           do_main_read_input(outcome)
    \/ \E created \in BOOLEAN : do_main_create_output(created)
    \/ \E outcome \in {"ok", "convert", "format", "panic"} :
           do_main_convert(outcome)
    \/ \E written \in BOOLEAN : do_main_write(written)

SpecMain == MainInit /\ [][MainNext]_vars

(***************************************************************************)
(*                       Properties of the driver                          *)
(***************************************************************************)
\* C19: the output file is created before the conversion runs, and whenever
\* do_main returns after it created the file, the file exists iff do_main
\* returned Ok, that is iff both the conversion and the writer succeeded;
\* after a failure of either the file is closed and deleted.
C19_OutputFileLifecycle ==
    /\ pc = "converted" => (output_file.created /\ output_file.open)
    /\ (pc = "returned" /\ ret.kind = "Err" /\ ret.at \in {"convert", "format", "write"})
           => output_file.created
    /\ (pc = "returned" /\ output_file.created) =>
           /\ output_file.exists <=> ret = Ok
           /\ ~output_file.open
           /\ ret # Ok => ret.at \in {"convert", "format", "write"}

\* do_main has returned an error of the writer after it created a file whose
\* name it derived from the input.
C19_Witness ==
    /\ pc = "returned"
    /\ output_file.created
    /\ ret = Err("write")
    /\ args.output = "None"

\* The name the claim describes: n followed by ".o" when n does not end in
\* ".so", else n without that ending and without a leading "lib", followed by
\* ".o"; the comparisons ignore case.
DefaultName(n) ==
    LET L == Len(n)
        ends == L >= 3 /\ to_lowercase(SubSeq(n, L - 2, L)) = DotSo
        base == SubSeq(n, 1, L - 3)
        lib == Len(base) >= 3 /\ to_lowercase(SubSeq(base, 1, 3)) = Lib
    IN  IF ~ends
        THEN n \o DotO
        ELSE IF lib
        THEN SubSeq(base, 4, Len(base)) \o DotO
        ELSE base \o DotO

\* C20: for every input file name n, convert_soname_to_object_name(n) returns
\* the default name of n: once do_main has computed the output path of
\* arguments without -o, the computation has not panicked and the file it
\* creates has that name.
C20_DefaultOutputName ==
    (args.output = "None") =>
        /\ ~(pc = "panicked" /\ ~output_file.created)
        /\ output_file.created => output_file.path = DefaultName(args.input)

(***************************************************************************)
(*             Size and order of the output section of CLS                 *)
(***************************************************************************)
\* The largest end address of the entries of the section map.
MaxEnd ==
    CHOOSE e \in {cls.section_maps[k].addr_range.end : k \in MapEntries} :
        \A k \in MapEntries : cls.section_maps[k].addr_range.end <= e

\* No section of the input lies inside two PT_LOAD segments, so that no
\* section is collected twice.
SingleCoverage ==
    \A k \in 1..Len(input.sections) :
        Cardinality({g \in 1..Len(input.segments) :
                        /\ input.segments[g].p_type = "PT_LOAD"
                        /\ is_section_in_segment(input.sections[k],
                                                 input.segments[g])}) <= 1

\* C21, for the inputs that have no section in two PT_LOAD segments: when CLS
\* has succeeded with at least one retained section, output_section_size and
\* the length of the output section's data are the maximum of addr + size
\* over the retained sections.
C21_SizeIsMaxEnd ==
    (SingleCoverage /\ ClsOk /\ MapEntries # {}) =>
        /\ cls.output_section_size = MaxEnd
        /\ Len(cls.out_data) = MaxEnd

\* C22: the entries of the section map are in ascending order of their start
\* addresses.
C22_MapSorted ==
    ClsOk =>
        \A k \in MapEntries :
            k + 1 \in MapEntries =>
                cls.section_maps[k].addr_range.start
                    <= cls.section_maps[k + 1].addr_range.start

\* CLS has succeeded on an input whose section 1 lies above its section 2 and
\* has retained both: the map holds section 2 before section 1.
C22_Witness ==
    /\ ClsOk
    /\ Len(cls.section_maps) = 2
    /\ cls.section_maps[1].index = 2
    /\ cls.section_maps[2].index = 1
    /\ input.sections[2].addr > input.sections[3].addr

\* C29, for the inputs that have no section in two PT_LOAD segments: CLS does
\* not write outside the output buffer: it does not panic, and when it has
\* succeeded the data of every retained section and the range of every map
\* entry end at or before output_section_size.
C29_CopyInsideBuffer ==
    SingleCoverage =>
    /\ cls.status # "panic"
    /\ ClsOk =>
           \A k \in MapEntries :
               /\ cls.section_maps[k].addr_range.end <= cls.output_section_size
               /\ EntrySection(k).addr + Len(uncompressed_data(EntrySection(k)))
                      <= cls.output_section_size

(***************************************************************************)
(*          Relocations outside the retained ranges; panics                *)
(***************************************************************************)
\* The address lies inside the range of some entry of the section map.
InRetained(addr) ==
    \E k \in MapEntries :
        /\ cls.section_maps[k].addr_range.start <= addr
        /\ addr < cls.section_maps[k].addr_range.end
\* The pass stopped, with an error or a panic, at input relocation k.
StoppedAt(k) == relconv.status \in {"err", "panic"} /\ relconv.at = k
Symbolic(r) == r.kind \in SymbolicKinds

\* C23: ConvertRelocationPass skips every dynamic relocation whose address
\* lies outside the range of every section-map entry: no output relocation is
\* made from it and the pass does not stop at it.
C23_OutsideSkipped ==
    RelRan =>
        /\ \A n \in OutputRelocs : InRetained(InputRelocs[relconv.from[n]].addr)
        /\ \A k \in 1..Len(InputRelocs) :
               StoppedAt(k) => InRetained(InputRelocs[k].addr)

\* C24: the output relocation of an R_X86_64_RELATIVE relocation inside a
\* retained range is absolute, 64 bits wide, against the symbol of the CLS
\* output section, and its addend is the section-map translation of the input
\* addend (the output offset of an address is the address itself); no output
\* relocation is made when the addend lies in no section-map range.
C24_RelativeAddendTranslated ==
    RelRan =>
        \A n \in OutputRelocs :
            LET r == InputRelocs[relconv.from[n]]
                o == relconv.relocations[n]
            IN  (r.kind = "R_X86_64_RELATIVE" /\ InRetained(r.addr)) =>
                    /\ o.kind = "Absolute"
                    /\ o.size = 64
                    /\ o.symbol = output_section_symbol
                    /\ InRetained(r.addend)
                    /\ o.addend = r.addend

\* C25: at a symbolic relocation whose target is no symbol the pass returns
\* the unsupported-reloc error: it does not panic there, and it makes no
\* output relocation from it.
C25_NonSymbolTargetUnsupported ==
    RelRan =>
        /\ \A k \in 1..Len(InputRelocs) :
               (Symbolic(InputRelocs[k]) /\ InputRelocs[k].target.kind # "Symbol"
                    /\ StoppedAt(k)) =>
                   /\ relconv.status = "err"
                   /\ relconv.error.kind = "UnsupportedReloc"
        /\ \A n \in OutputRelocs :
               LET r == InputRelocs[relconv.from[n]]
               IN  Symbolic(r) => r.target.kind = "Symbol"

\* C28: the symbol map has an entry for the target of every symbolic
\* relocation that ConvertRelocationPass does not skip, so the pass does not
\* panic on a missing translation.
C28_TargetsMapped ==
    (RelRan /\ input.arch = "X86_64") =>
        \A k \in 1..Len(InputRelocs) :
            LET r == InputRelocs[k]
            IN  (Symbolic(r) /\ r.target.kind = "Symbol"
                     /\ r.addr < cls.output_section_size) =>
                    /\ Mapped(r.target.index)
                    /\ ~(relconv.status = "panic" /\ relconv.at = k)

(***************************************************************************)
(*                    Section and value of output symbols                  *)
(***************************************************************************)
\* C26 as stated: the section of every output symbol follows from the section
\* of its input symbol: undefined gives undefined, absolute gives absolute,
\* common gives none, a retained input section gives the CLS output section;
\* and the value of the output symbol is the address of the input symbol.
C26_SectionCommonToNone ==
    SymOk =>
        \A k \in DynSyms :
            LET s == input.dynamic_symbols[k]
            IN  Mapped(s.index) =>
                    /\ OutputOf(s.index).value = s.address
                    /\ s.section.kind = "Undefined" =>
                           OutputOf(s.index).section = [kind |-> "Undefined"]
                    /\ s.section.kind = "Absolute" =>
                           OutputOf(s.index).section = [kind |-> "Absolute"]
                    /\ s.section.kind = "Common" =>
                           OutputOf(s.index).section = [kind |-> "None"]
                    /\ s.section.kind = "Section" =>
                           OutputOf(s.index).section =
                               [kind |-> "Section", id |-> output_section_id]

\* C26 amended: undefined gives undefined, absolute gives absolute, common
\* gives common, none gives none, a retained input section gives the CLS
\* output section; the value of the output symbol is the address of the input
\* symbol.
C26_SectionKindKept ==
    SymOk =>
        \A k \in DynSyms :
            LET s == input.dynamic_symbols[k]
            IN  Mapped(s.index) =>
                    /\ OutputOf(s.index).value = s.address
                    /\ s.section.kind \in {"Undefined", "Absolute", "Common", "None"}
                           => OutputOf(s.index).section = [kind |-> s.section.kind]
                    /\ s.section.kind = "Section" =>
                           /\ Retained(s.section.index)
                           /\ OutputOf(s.index).section =
                                  [kind |-> "Section", id |-> output_section_id]

\* The pass has emitted the symbol of a common symbol and the symbol of a
\* symbol defined in a retained section.
C26_Witness ==
    /\ SymOk
    /\ \E k \in DynSyms :
        /\ input.dynamic_symbols[k].section.kind = "Common"
        /\ Mapped(input.dynamic_symbols[k].index)
    /\ \E k \in DynSyms :
        /\ input.dynamic_symbols[k].section.kind = "Section"
        /\ Mapped(input.dynamic_symbols[k].index)

(***************************************************************************)
(*                 Properties of the init/fini array passes                *)
(***************************************************************************)
\* sec is a retained, non-empty section of the type of array a.
ArrayMember(sec, a) ==
    /\ sec.sh_type = SectionTypeOf(a)
    /\ Retained(sec.index)
    /\ sec.size > 0
\* The dynamic relocations that fall within sec, in input order.
RelocsWithin(sec) ==
    SelectSeq(InputRelocs,
              LAMBDA r : sec.addr <= r.addr /\ r.addr < sec.addr + sec.size)
MemberRelocs(k, a) ==
    IF ArrayMember(input.sections[k], a)
    THEN RelocsWithin(input.sections[k])
    ELSE <<>>
\* The relocations within the members of array a: section by section, every
\* input has three sections.
ArrayInputRelocs(a) == MemberRelocs(1, a) \o MemberRelocs(2, a) \o MemberRelocs(3, a)
AbsoluteAgainstMain(r) ==
    [offset |-> r.addr, size |-> 64, kind |-> "Absolute",
     symbol |-> output_section_symbol, addend |-> r.addend]

\* C27, on x86-64 inputs: the init (fini) array pass emits one absolute 64-bit
\* relocation against the symbol of the main output section, with the addend
\* of the input, for every dynamic relocation that falls within a retained
\* non-empty SHT_INIT_ARRAY (SHT_FINI_ARRAY) section, and none for any other
\* relocation, when all those relocations are R_X86_64_RELATIVE; otherwise it
\* fails with the unsupported-reloc error of the first one that is not.
C27_ArrayRelocations ==
    (input.arch = "X86_64" /\ HasRelocs) =>
        \A a \in ArraysRan :
            LET E == ArrayInputRelocs(a)
                bad == {n \in 1..Len(E) : E[n].kind # "R_X86_64_RELATIVE"}
            IN  /\ bad = {} =>
                       /\ funcarr[a].status = "ok"
                       /\ funcarr[a].relocations =
                              [n \in 1..Len(E) |-> AbsoluteAgainstMain(E[n])]
                /\ bad # {} =>
                       /\ funcarr[a].status = "err"
                       /\ funcarr[a].error =
                              [kind |-> "UnsupportedReloc",
                               reloc_kind |-> E[FirstOf(bad)].kind]

\* The init array pass has emitted one relocation for an input with two
\* init array sections and two relocations, one of them outside both.
C27_Witness ==
    /\ input.arch = "X86_64"
    /\ funcarr["init"].status = "ok"
    /\ Len(funcarr["init"].relocations) = 1
    /\ Len(InputRelocs) = 2
    /\ ArrayMember(input.sections[2], "init")
    /\ ArrayMember(input.sections[3], "init")
    /\ \E k \in 1..2 : InputRelocs[k].kind # "R_X86_64_RELATIVE"

\* The members of array a hold whole 8-byte entries.
WholeEntries(a) ==
    \A k \in 1..Len(input.sections) :
        ArrayMember(input.sections[k], a) => input.sections[k].size % 8 = 0

\* C30, for array sections of whole 8-byte entries: every relocation the
\* init/fini array pass attaches to the section it creates lies inside that
\* section: offset + 8 is at most the size of the section, the sum of the
\* sizes of the retained input sections of the kind.
C30_ArrayRelocationInside ==
    \A a \in ArraysRan :
        (funcarr[a].status = "ok" /\ WholeEntries(a)) =>
            \A n \in 1..Len(funcarr[a].relocations) :
                funcarr[a].relocations[n].offset + 8 <= Len(funcarr[a].data)

NoInput == [sections |-> <<>>, segments |-> <<>>]

Init == PMInit /\ input = NoInput /\ cls = NotRun /\ ElfIdle /\ MainIdle
Next == PMNext
Spec == Init /\ [][Next]_vars

====
